---- MODULE Spec2Model ----
(***************************************************************************)
(* Model of the arboretum crate: the node Arena (src/arena/mod.rs), the    *)
(* sequence Trie (src/trie/trie.rs, src/trie/grammar.rs) and the point     *)
(* quadtree (src/spatial/quadtree).                                        *)
(*                                                                         *)
(* Conventions.  Option<T> is a sequence of length <= 1: None is <<>> and  *)
(* Some(x) is <<x>>.  A Vec is a function over 0..len-1 (the source's      *)
(* indices).  A char is its code point.  A panic (expect/unwrap on None,   *)
(* an out-of-range index, panic!) is the result kind "Panic"; the state    *)
(* returned with it is the memory as it stands when the panic is raised.   *)
(***************************************************************************)
EXTENDS Integers, Sequences, FiniteSets, TLC

\* ------------------------------------------------------------------ bounds

\* Longest key (in chars) the model's callers pass to the trie.
MaxLen == 2
\* Cap on the identities one arena issues (the counter itself is unbounded).
MaxId == 4

\* Payloads (T): two values tell an old payload from a new one.  T::default()
\* is DefaultT.
Values == {1, 2}
DefaultT == 0

\* ------------------------------------------------------------- Option, Result

None == <<>>
Some(x) == <<x>>

Ok(v) == [kind |-> "Ok", val |-> v, msg |-> ""]
Err(m) == [kind |-> "Err", val |-> None, msg |-> m]
Panic(m) == [kind |-> "Panic", val |-> None, msg |-> m]

\* ---------------------------------------------------------------------- Arena

\* Arena::new: an empty table and a counter at zero.
ArenaNew == [storage |-> <<>>, id_counter |-> 0]

\* Arena::get_node: the cell under id, if any.
get_node(arena, id) ==
    IF id \in DOMAIN arena.storage THEN Some(arena.storage[id]) ELSE None

\* add_node that replaces the entry of an identity already present.
add_node_overwrites(arena, node) ==
    [arena |-> [arena EXCEPT !.storage =
                   (node.id :> node) @@ [i \in (DOMAIN @) \ {node.id} |-> @[i]]],
     res |-> Ok(None)]

\* Arena::add_node: refuses an identity that already has an entry.
add_node(arena, node) ==
    IF node.id \in DOMAIN arena.storage
    THEN [arena |-> arena, res |-> Err("node already exists!")]
    ELSE [arena |-> [arena EXCEPT !.storage = (node.id :> node) @@ @],
          res |-> Ok(None)]

\* Arena::delete_node: removes the entry under id.
delete_node(arena, id) ==
    IF id \notin DOMAIN arena.storage
    THEN [arena |-> arena, res |-> Err("node doesn't exist!")]
    ELSE [arena |-> [arena EXCEPT !.storage =
                        [i \in (DOMAIN @) \ {id} |-> @[i]]],
          res |-> Ok(None)]

\* get_new_id that hands out the lowest identity without an entry.
get_new_id_lowest_free(arena) ==
    [arena |-> [arena EXCEPT !.id_counter = @ + 1],
     id |-> CHOOSE i \in 0..Cardinality(DOMAIN arena.storage) :
                /\ i \notin DOMAIN arena.storage
                /\ \A k \in 0..(i - 1) : k \in DOMAIN arena.storage]

\* Arena::get_new_id: fetch_add(1) returns the previous counter value.
get_new_id(arena) ==
    [arena |-> [arena EXCEPT !.id_counter = @ + 1], id |-> arena.id_counter]

\* A write through a handle (SharedRef) to the cell of node.id; the table is
\* not touched.
WriteCell(arena, node) ==
    [arena EXCEPT !.storage = [i \in DOMAIN @ |-> IF i = node.id THEN node ELSE @[i]]]

\* -------------------------------------------------------------------- Grammar

\* preprocess_char: ASCII upper case folds to lower case when insensitive.
preprocess_char(c, sense) ==
    IF sense = "Insensitive" /\ c >= 65 /\ c <= 90 THEN c + 32 ELSE c

\* chars.sort_by(|a, b| b.cmp(a)): the chars of s in descending order.
RECURSIVE SortDesc(_)
SortDesc(s) ==
    IF Len(s) = 0 THEN <<>>
    ELSE LET m == CHOOSE i \in 1..Len(s) : \A j \in 1..Len(s) : s[i] >= s[j]
             rest == [k \in 1..(Len(s) - 1) |-> IF k < m THEN s[k] ELSE s[k + 1]]
         IN <<s[m]>> \o SortDesc(rest)

\* The for_each of Grammar::from: each new folded char gets the next index.
RECURSIVE BuildMapping(_, _, _)
BuildMapping(chars, sense, mapping) ==
    IF Len(chars) = 0 THEN mapping
    ELSE LET k == preprocess_char(Head(chars), sense)
         IN BuildMapping(Tail(chars), sense,
                IF k \in DOMAIN mapping THEN mapping
                ELSE (k :> Cardinality(DOMAIN mapping)) @@ mapping)

\* Grammar::from
GrammarFrom(s_slice, sense) ==
    [mapping |-> BuildMapping(SortDesc(s_slice), sense, <<>>), sense |-> sense]

\* Grammar::idx
idx(g, c) ==
    LET k == preprocess_char(c, g.sense)
    IN IF k \in DOMAIN g.mapping THEN Some(g.mapping[k]) ELSE None

\* Grammar::seq().len()
GrammarLen(g) == Cardinality(DOMAIN g.mapping)

\* Grammar::to_indices: the first unknown char ends the loop with an error.
RECURSIVE to_indices_from(_, _, _)
to_indices_from(g, s, out) ==
    IF Len(s) = 0 THEN Ok(out)
    ELSE LET i == idx(g, Head(s))
         IN IF i = None THEN Err("char is not part of grammar")
            ELSE to_indices_from(g, Tail(s), Append(out, i[1]))

to_indices(g, s) == to_indices_from(g, s, <<>>)

\* ------------------------------------------------------------------- TrieNode

\* TrieNode::new
TrieNodeNew(id, payload, arity) ==
    [id |-> id, payload |-> payload, arity |-> arity,
     children |-> [i \in 0..(arity - 1) |-> None]]

\* TrieNode::is_terminal
is_terminal(node) == node.payload # None

\* TrieNode::is_leaf
is_leaf(node) == \A i \in DOMAIN node.children : node.children[i] = None

\* TrieNode::can_delete
can_delete(node) == ~is_terminal(node) /\ is_leaf(node)

\* ----------------------------------------------------------------------- Trie

\* Trie::new: the root takes the first identity of a fresh arena.
TrieNew(grammar) ==
    LET g == get_new_id(ArenaNew)
        a == add_node(g.arena, TrieNodeNew(g.id, None, GrammarLen(grammar)))
    IN [arena |-> a.arena, grammar |-> grammar, root |-> g.id, size |-> 0]

\* Trie::len
len(self) == self.size

\* Trie::is_empty
is_empty(self) == len(self) = 0

\* Trie::preprocess_seq: an unknown symbol is a panic.
preprocess_seq(self, seq) ==
    LET r == to_indices(self.grammar, seq)
    IN IF r.kind = "Ok" THEN r ELSE Panic(r.msg)

\* The terminal case of Trie::_insert_apply (seq.len() == 0).
insert_apply_terminal(self, node_id, t, f, on_collision) ==
    LET node_ref == get_node(self.arena, node_id)
    IN IF node_ref = None THEN [self |-> self, res |-> Panic("node doesnt exist!")]
       ELSE LET node == node_ref[1]
            IN IF node.payload # None
               THEN IF on_collision = "ReturnError"
                    THEN [self |-> self, res |-> Err("key already exists")]
                    ELSE LET prev == node.payload[1]
                         IN [self |-> [self EXCEPT !.arena = WriteCell(@,
                                          [node EXCEPT !.payload = Some(f[prev])])],
                             res |-> Ok(Some(prev))]
               ELSE [self |-> [self EXCEPT
                                 !.size = @ + 1,
                                 !.arena = WriteCell(@, [node EXCEPT !.payload = Some(t)])],
                     res |-> Ok(None)]

\* The branch step of Trie::_insert_apply: the child under idx, created (with
\* the parent's arity) and linked when the slot is empty.
insert_apply_next(self, node_id, i) ==
    LET node_ref == get_node(self.arena, node_id)
    IN IF node_ref = None
       THEN [self |-> self, res |-> Panic("node doesnt exist!"), next_id |-> 0]
       ELSE LET node == node_ref[1]
                child_id == node.children[i]
            IN IF child_id = None
               THEN LET g == get_new_id(self.arena)
                        a == add_node(g.arena, TrieNodeNew(g.id, None, node.arity))
                    IN IF a.res.kind # "Ok"
                       THEN [self |-> [self EXCEPT !.arena = a.arena],
                             res |-> Panic("could not add node!"), next_id |-> 0]
                       ELSE [self |-> [self EXCEPT !.arena = WriteCell(a.arena,
                                         [node EXCEPT !.children[i] = Some(g.id)])],
                             res |-> Ok(None), next_id |-> g.id]
               ELSE [self |-> self, res |-> Ok(None), next_id |-> child_id[1]]

\* Trie::_insert_apply
RECURSIVE _insert_apply(_, _, _, _, _, _)
_insert_apply(self, seq, node_id, t, f, on_collision) ==
    IF Len(seq) = 0 THEN insert_apply_terminal(self, node_id, t, f, on_collision)
    ELSE LET n == insert_apply_next(self, node_id, Head(seq))
         IN IF n.res.kind # "Ok" THEN [self |-> n.self, res |-> n.res]
            ELSE _insert_apply(n.self, Tail(seq), n.next_id, t, f, on_collision)

\* Trie::insert_or_apply
insert_or_apply(self, seq, t, f) ==
    LET p == preprocess_seq(self, seq)
    IN IF p.kind # "Ok" THEN [self |-> self, res |-> p]
       ELSE _insert_apply(self, p.val, self.root, t, f, "ApplyFn")

\* Trie::insert_or_update: the closure |_| t.clone()
insert_or_update(self, seq, t) ==
    insert_or_apply(self, seq, t, [x \in Values |-> t])

\* Trie::insert: the closure is never applied under ReturnError; Ok carries ().
insert(self, seq, t) ==
    LET p == preprocess_seq(self, seq)
    IN IF p.kind # "Ok" THEN [self |-> self, res |-> p]
       ELSE LET r == _insert_apply(self, p.val, self.root, t,
                                   [x \in Values |-> DefaultT], "ReturnError")
            IN IF r.res.kind = "Ok" THEN [self |-> r.self, res |-> Ok(None)] ELSE r

\* Trie::_find
RECURSIVE _find(_, _, _)
_find(self, seq, node_id) ==
    LET node_ref == get_node(self.arena, node_id)
    IN IF node_ref = None THEN None
       ELSE IF Len(seq) = 0 THEN node_ref[1].payload
       ELSE LET child == node_ref[1].children[Head(seq)]
            IN IF child = None THEN None ELSE _find(self, Tail(seq), child[1])

\* Trie::find: Ok(option) or the panic of preprocess_seq.
find(self, seq) ==
    IF is_empty(self) THEN Ok(None)
    ELSE LET p == preprocess_seq(self, seq)
         IN IF p.kind # "Ok" THEN p ELSE Ok(_find(self, p.val, self.root))

\* The terminal case of Trie::_delete (seq is empty).
delete_terminal(self, node) ==
    IF ~is_terminal(node)
    THEN [self |-> self, res |-> Err("sequence not found!"), deleted |-> FALSE]
    ELSE LET prev_result == node.payload
             taken == [node EXCEPT !.payload = None]
             s1 == [self EXCEPT !.arena = WriteCell(@, taken), !.size = @ - 1]
         IN IF node.id # self.root /\ can_delete(taken)
            THEN LET d == delete_node(s1.arena, node.id)
                 IN IF d.res.kind # "Ok"
                    THEN [self |-> s1, res |-> Panic("could not delete node"),
                          deleted |-> FALSE]
                    ELSE [self |-> [s1 EXCEPT !.arena = d.arena],
                          res |-> Ok(prev_result), deleted |-> TRUE]
            ELSE [self |-> s1, res |-> Ok(prev_result), deleted |-> FALSE]

\* The slot an ancestor clears when its child reported deletion:
\* node.children[id] = None, indexed by the child's identity.
cleared_slot(next_idx, id) == id

\* The unwinding step of Trie::_delete in an ancestor, after the recursive
\* call on child id returned Ok((child_deleted, payload)).
delete_unwind(self, node_id, next_idx, id, child_deleted, payload) ==
    LET node == self.arena.storage[node_id]
        slot == cleared_slot(next_idx, id)
    IN IF child_deleted /\ slot \notin DOMAIN node.children
       THEN [self |-> self, res |-> Panic("index out of bounds"), deleted |-> FALSE]
       ELSE LET node2 == IF child_deleted THEN [node EXCEPT !.children[slot] = None]
                         ELSE node
                s1 == [self EXCEPT !.arena = WriteCell(@, node2)]
            IN IF can_delete(node2)
               THEN LET d == delete_node(s1.arena, node_id)
                    IN IF d.res.kind # "Ok"
                       THEN [self |-> s1, res |-> Panic("could not delete node"),
                             deleted |-> FALSE]
                       ELSE [self |-> [s1 EXCEPT !.arena = d.arena],
                             res |-> Ok(payload), deleted |-> TRUE]
               ELSE [self |-> s1, res |-> Ok(payload), deleted |-> FALSE]

\* Trie::_delete
RECURSIVE _delete(_, _, _)
_delete(self, seq, node_id) ==
    LET node_ref == get_node(self.arena, node_id)
    IN IF node_ref = None
       THEN [self |-> self, res |-> Panic("called Option::unwrap() on a None value"),
             deleted |-> FALSE]
       ELSE IF Len(seq) = 0 THEN delete_terminal(self, node_ref[1])
       ELSE LET next_idx == Head(seq)
                child_id == node_ref[1].children[next_idx]
            IN IF child_id = None
               THEN [self |-> self, res |-> Err("sequence not found!"), deleted |-> FALSE]
               ELSE LET r == _delete(self, Tail(seq), child_id[1])
                    IN IF r.res.kind # "Ok" THEN r
                       ELSE delete_unwind(r.self, node_id, next_idx, child_id[1],
                                          r.deleted, r.res.val)

\* Trie::delete
delete(self, seq) ==
    IF is_empty(self)
    THEN [self |-> self, res |-> Err("sequence not found because container is empty!")]
    ELSE LET p == preprocess_seq(self, seq)
         IN IF p.kind # "Ok" THEN [self |-> self, res |-> p]
            ELSE LET r == _delete(self, p.val, self.root)
                 IN [self |-> r.self, res |-> r.res]

\* ------------------------------------------------------------ trie: the inputs

\* The string the grammar is built from ("abc") and its case policy.
AlphabetStr == <<97, 98, 99>>
TheGrammar == GrammarFrom(AlphabetStr, "Insensitive")

\* The chars callers draw keys from: a, b, and '!' (which the grammar does
\* not know).
InputChars == {97, 98, 33}
Keys == UNION {[1..n -> InputChars] : n \in 0..MaxLen}
\* The keys the grammar encodes.
ValidKeys == {k \in Keys : to_indices(TheGrammar, k).kind = "Ok"}
\* The closures passed to insert_or_apply.
Fns == {[x \in Values |-> 3 - x]}
NoFn == [x \in Values |-> x]

\* trie, tcall: the Trie and its last call (operation, arguments, result).
\* qt, qcall: the PointQuadtree and its last call; qins: the <<point, payload>>
\* pairs for which insert returned true (history, not program state);
\* qdirect: how many times _insert was called directly (history).
\* aarena: an Arena used directly; aslot: the cell each table entry points
\* to; aheap: the allocated cells with their strong counts; aheld: the handles
\* (SharedRef) the caller holds; acall: the last call; aissued: the identities
\* get_new_id has returned, in order (history).
\* cquad: a PointQuadtree shared by threads; qborrow: the threads holding it,
\* mutably or shared; qlock: the guards held on the quads' RwLocks; qthr: each
\* thread's position in its call and its locals.
\* ctrie: a Trie shared by threads; tborrow: the thread holding it mutably, if
\* any; tthr: each thread's position in its insert and its locals.
\* ltrie: a Trie whose calls run one statement at a time; lcall: the call in
\* progress and its locals; lstack: the frames of the recursion; lheld: the
\* guards on node content locks that are alive between statements; lacq: the
\* guards held at the latest lock acquisition, the new one included (history).
VARIABLES trie, tcall, qt, qcall, qins, qdirect,
          aarena, aslot, aheap, aheld, acall, aissued,
          ctrie, tborrow, tthr,
          cquad, qborrow, qlock, qthr,
          ltrie, lcall, lstack, lheld, lacq

tvars == <<trie, tcall>>
qvars == <<qt, qcall, qins, qdirect>>
avars == <<aarena, aslot, aheap, aheld, acall, aissued>>
ctvars == <<ctrie, tborrow, tthr>>
cqvars == <<cquad, qborrow, qlock, qthr>>
lkvars == <<ltrie, lcall, lstack, lheld, lacq>>
vars == <<tvars, qvars, avars, ctvars, cqvars, lkvars>>

Call(op, seq, t, f, res) == [op |-> op, seq |-> seq, t |-> t, f |-> f, res |-> res]

TrieInit ==
    /\ trie = TrieNew(TheGrammar)
    /\ tcall = Call("new", <<>>, DefaultT, NoFn, Ok(None))

\* A panic ends the program; the identity cap keeps the model finite.
CanCall(seq) ==
    /\ tcall.res.kind # "Panic"
    /\ trie.arena.id_counter + Len(seq) <= MaxId

TInsert ==
    \E seq \in Keys, t \in Values :
        /\ CanCall(seq)
        /\ LET r == insert(trie, seq, t)
           IN /\ trie' = r.self
              /\ tcall' = Call("insert", seq, t, NoFn, r.res)
        /\ UNCHANGED <<qvars, avars, ctvars, cqvars, lkvars>>

TInsertOrUpdate ==
    \E seq \in Keys, t \in Values :
        /\ CanCall(seq)
        /\ LET r == insert_or_update(trie, seq, t)
           IN /\ trie' = r.self
              /\ tcall' = Call("insert_or_update", seq, t, NoFn, r.res)
        /\ UNCHANGED <<qvars, avars, ctvars, cqvars, lkvars>>

TInsertOrApply ==
    \E seq \in Keys, t \in Values, f \in Fns :
        /\ CanCall(seq)
        /\ LET r == insert_or_apply(trie, seq, t, f)
           IN /\ trie' = r.self
              /\ tcall' = Call("insert_or_apply", seq, t, f, r.res)
        /\ UNCHANGED <<qvars, avars, ctvars, cqvars, lkvars>>

TDelete ==
    \E seq \in Keys :
        /\ CanCall(<<>>)
        /\ LET r == delete(trie, seq)
           IN /\ trie' = r.self
              /\ tcall' = Call("delete", seq, DefaultT, NoFn, r.res)
        /\ UNCHANGED <<qvars, avars, ctvars, cqvars, lkvars>>

\* find, contains, len and is_empty read the trie and change nothing: they are
\* the operators above, applied to the states these actions reach.
TrieNext == TInsert \/ TInsertOrUpdate \/ TInsertOrApply \/ TDelete


\* ------------------------------------------------------------- BBox2D, Vec2

\* A Vec2 is <<x, y>>.  nalgebra orders vectors componentwise: a <= b (a < b)
\* holds when it holds in every component.
VecLe(a, b) == a[1] <= b[1] /\ a[2] <= b[2]
VecLt(a, b) == a[1] < b[1] /\ a[2] < b[2]

\* contains with the max corner included (p <= max).
contains_max_inclusive(bbox, p) == VecLe(bbox.min, p) /\ VecLe(p, bbox.max)

\* BBox2D::contains: min inclusive, max exclusive.
contains(bbox, p) == VecLe(bbox.min, p) /\ VecLt(p, bbox.max)

\* Range::intersects, on ranges <<lo, hi>>.
RangeIntersects(a, b) == a[2] >= b[1] /\ b[2] >= a[1]

\* BBox2D::xrange, BBox2D::yrange
xrange(bbox) == <<bbox.min[1], bbox.max[1]>>
yrange(bbox) == <<bbox.min[2], bbox.max[2]>>

\* BBox2D::intersects
intersects(bbox, other) ==
    /\ RangeIntersects(xrange(bbox), xrange(other))
    /\ RangeIntersects(yrange(bbox), yrange(other))

\* subdivide with the lower right box starting at the left edge.
subdivide_overlapping(bbox, mid) ==
    << [min |-> bbox.min, max |-> mid],
       [min |-> bbox.min, max |-> <<bbox.max[1], mid[2]>>],
       [min |-> mid, max |-> bbox.max],
       [min |-> <<bbox.min[1], mid[2]>>, max |-> <<mid[1], bbox.max[2]>>] >>

\* BBox2D::subdivide: lower left, lower right, upper right, upper left.
subdivide(bbox, mid) ==
    << [min |-> bbox.min, max |-> mid],
       [min |-> <<mid[1], bbox.min[2]>>, max |-> <<bbox.max[1], mid[2]>>],
       [min |-> mid, max |-> bbox.max],
       [min |-> <<bbox.min[1], mid[2]>>, max |-> <<mid[1], bbox.max[2]>>] >>

\* --------------------------------------------------------------- PointQuadtree

\* Quad::new.  point is an Option of <<Vec2, payload>>; children an Option of
\* four identities in SW, SE, NE, NW order.
QuadNew(id, bbox) == [id |-> id, bbox |-> bbox, point |-> None, children |-> None]

\* PointQuadtree::new
QuadtreeNew(bbox) ==
    LET g == get_new_id(ArenaNew)
        a == add_node(g.arena, QuadNew(g.id, bbox))
    IN [arena |-> a.arena, root_id |-> g.id, size |-> 0]

\* PointQuadtree::len
quad_len(self) == self.size

\* add_one that takes an identity and adds no node under it.
add_one_unregistered(arena, bbox) ==
    LET g == get_new_id(arena)
    IN [arena |-> g.arena, res |-> Ok(None), id |-> g.id]

\* The closure add_one of PointQuadtree::_insert: a new empty Quad over bbox.
add_one(arena, bbox) ==
    LET g == get_new_id(arena)
        a == add_node(g.arena, QuadNew(g.id, bbox))
    IN [arena |-> a.arena, res |-> a.res, id |-> g.id]

\* The subdivision of PointQuadtree::_insert: four children over the boxes
\* cut at the resident point, added in order, then quad.children is set.
\* The first add_one that fails panics: the ones after it do not run.
quad_subdivide(self, quad) ==
    LET boxes == subdivide(quad.bbox, quad.point[1][1])
        c1 == add_one(self.arena, boxes[1])
        c2 == add_one(c1.arena, boxes[2])
        c3 == add_one(c2.arena, boxes[3])
        c4 == add_one(c3.arena, boxes[4])
        failed(c) == [self |-> [self EXCEPT !.arena = c.arena],
                      res |-> Panic("could not add node!")]
    IN IF c1.res.kind # "Ok" THEN failed(c1)
       ELSE IF c2.res.kind # "Ok" THEN failed(c2)
       ELSE IF c3.res.kind # "Ok" THEN failed(c3)
       ELSE IF c4.res.kind # "Ok" THEN failed(c4)
       ELSE [self |-> [self EXCEPT !.arena = WriteCell(c4.arena,
                         [quad EXCEPT !.children = Some(<<c1.id, c2.id, c3.id, c4.id>>)])],
             res |-> Ok(TRUE)]

\* PointQuadtree::_insert, and the iter().any(..) over the children, which
\* stops at the first child that takes the point.
RECURSIVE _quad_insert(_, _, _)
RECURSIVE quad_insert_any(_, _, _, _)
_quad_insert(self, elem, quad_id) ==
    LET quad_ref == get_node(self.arena, quad_id)
    IN IF quad_ref = None THEN [self |-> self, res |-> Panic("could not find node")]
       ELSE LET quad == quad_ref[1]
            IN IF ~contains(quad.bbox, elem[1]) THEN [self |-> self, res |-> Ok(FALSE)]
               ELSE IF quad.point = None
               THEN [self |-> [self EXCEPT !.arena = WriteCell(@,
                                 [quad EXCEPT !.point = Some(elem)])],
                     res |-> Ok(TRUE)]
               ELSE IF quad.point[1][1] = elem[1] THEN [self |-> self, res |-> Ok(FALSE)]
               ELSE LET s == IF quad.children = None THEN quad_subdivide(self, quad)
                             ELSE [self |-> self, res |-> Ok(TRUE)]
                    IN IF s.res.kind # "Ok" THEN s
                       ELSE quad_insert_any(s.self, elem,
                                s.self.arena.storage[quad_id].children[1], 1)

quad_insert_any(self, elem, children, i) ==
    IF i > Len(children) THEN [self |-> self, res |-> Ok(FALSE)]
    ELSE LET r == _quad_insert(self, elem, children[i])
         IN IF r.res.kind # "Ok" \/ r.res.val THEN r
            ELSE quad_insert_any(r.self, elem, children, i + 1)

\* insert with the count grown whatever _insert returns.
quad_insert_always_counts(self, point, payload) ==
    LET r == _quad_insert(self, <<point, payload>>, self.root_id)
    IN [self |-> [r.self EXCEPT !.size = @ + 1], res |-> r.res]

\* PointQuadtree::insert: the count grows when _insert returns true.
quad_insert(self, point, payload) ==
    LET r == _quad_insert(self, <<point, payload>>, self.root_id)
    IN IF r.res.kind = "Ok" /\ r.res.val
       THEN [self |-> [r.self EXCEPT !.size = @ + 1], res |-> r.res]
       ELSE r

\* PointQuadtree::_find, and its loop over the children, which returns the
\* first hit.  Ok carries the Option returned; a missing node is a panic.
RECURSIVE _quad_find(_, _, _)
RECURSIVE quad_find_any(_, _, _, _)

\* _find that gives up at a node holding another point, without looking
\* into the children.
quad_find_no_descent(self, p, quad_id) ==
    LET quad_ref == get_node(self.arena, quad_id)
    IN IF quad_ref = None THEN Panic("could not find node")
       ELSE LET quad == quad_ref[1]
            IN IF ~contains(quad.bbox, p) THEN Ok(None)
               ELSE IF quad.point = None THEN Ok(None)
               ELSE IF quad.point[1][1] = p THEN Ok(quad.point)
               ELSE Ok(None)

_quad_find(self, p, quad_id) ==
    LET quad_ref == get_node(self.arena, quad_id)
    IN IF quad_ref = None THEN Panic("could not find node")
       ELSE LET quad == quad_ref[1]
            IN IF ~contains(quad.bbox, p) THEN Ok(None)
               ELSE IF quad.point = None THEN Ok(None)
               ELSE IF quad.point[1][1] = p THEN Ok(quad.point)
               ELSE IF quad.children = None THEN Ok(None)
               ELSE quad_find_any(self, p, quad.children[1], 1)

quad_find_any(self, p, children, i) ==
    IF i > Len(children) THEN Ok(None)
    ELSE LET r == _quad_find(self, p, children[i])
         IN IF r.kind # "Ok" \/ r.val # None THEN r
            ELSE quad_find_any(self, p, children, i + 1)

\* PointQuadtree::find
quad_find(self, p) == _quad_find(self, p, self.root_id)

\* PointQuadtree::_find_within, and its loop appending every child's result.
RECURSIVE _find_within(_, _, _)
RECURSIVE find_within_all(_, _, _, _)

\* _find_within that lists a node's own point after its children's.
find_within_post_order(self, bbox, quad_id) ==
    LET quad_ref == get_node(self.arena, quad_id)
    IN IF quad_ref = None THEN Panic("could not find node")
       ELSE LET quad == quad_ref[1]
            IN IF ~intersects(quad.bbox, bbox) THEN Ok(<<>>)
               ELSE LET own == IF quad.point # None /\ contains(bbox, quad.point[1][1])
                               THEN <<quad.point[1]>> ELSE <<>>
                        sub == IF quad.children = None THEN Ok(<<>>)
                               ELSE find_within_all(self, bbox, quad.children[1], 1)
                    IN IF sub.kind # "Ok" THEN sub ELSE Ok(sub.val \o own)

_find_within(self, bbox, quad_id) ==
    LET quad_ref == get_node(self.arena, quad_id)
    IN IF quad_ref = None THEN Panic("could not find node")
       ELSE LET quad == quad_ref[1]
            IN IF ~intersects(quad.bbox, bbox) THEN Ok(<<>>)
               ELSE LET own == IF quad.point # None /\ contains(bbox, quad.point[1][1])
                               THEN <<quad.point[1]>> ELSE <<>>
                        sub == IF quad.children = None THEN Ok(<<>>)
                               ELSE find_within_all(self, bbox, quad.children[1], 1)
                    IN IF sub.kind # "Ok" THEN sub ELSE Ok(own \o sub.val)

find_within_all(self, bbox, children, i) ==
    IF i > Len(children) THEN Ok(<<>>)
    ELSE LET r == _find_within(self, bbox, children[i])
             rest == find_within_all(self, bbox, children, i + 1)
         IN IF r.kind # "Ok" THEN r
            ELSE IF rest.kind # "Ok" THEN rest
            ELSE Ok(r.val \o rest.val)

\* PointQuadtree::find_within
find_within(self, bbox) == _find_within(self, bbox, self.root_id)

\* -------------------------------------------------------- quadtree: the inputs

\* The root box is [(0,0), (QSize,QSize)); callers pass points with both
\* coordinates in 0..QSize, so the points on the max edges lie outside.
QSize == 2
\* Cap on the points stored (len() itself is unbounded).
MaxPoints == 3
\* Cap on the direct calls of _insert.
MaxDirect == 1

RootBBox == [min |-> <<0, 0>>, max |-> <<QSize, QSize>>]
Points == (0..QSize) \X (0..QSize)
Payloads == {1, 2}

QCall(op, point, payload, res) ==
    [op |-> op, point |-> point, payload |-> payload, res |-> res]

QuadInit ==
    /\ qt = QuadtreeNew(RootBBox)
    /\ qcall = QCall("new", <<0, 0>>, 1, Ok(FALSE))
    /\ qins = {}
    /\ qdirect = 0

QInsert ==
    \E point \in Points, payload \in Payloads :
        /\ qcall.res.kind # "Panic"
        /\ quad_len(qt) < MaxPoints
        /\ \E r \in {quad_insert(qt, point, payload)} :
              /\ qt' = r.self
              /\ qcall' = QCall("insert", point, payload, r.res)
              /\ qins' = IF r.res.kind = "Ok" /\ r.res.val
                         THEN qins \cup {<<point, payload>>} ELSE qins
        /\ UNCHANGED <<qdirect, tvars, avars, ctvars, cqvars, lkvars>>

\* pub fn _insert called by the owner of the tree, on the identity of any
\* quad or on an identity that names none: the point is stored or the quad
\* subdivided as in insert, and the count is left alone.
QInsertAt ==
    \E point \in Points, payload \in Payloads,
       quad_id \in DOMAIN qt.arena.storage \cup {qt.arena.id_counter} :
        /\ qcall.res.kind # "Panic"
        /\ qdirect < MaxDirect
        /\ \E r \in {_quad_insert(qt, <<point, payload>>, quad_id)} :
              /\ qt' = r.self
              /\ qcall' = QCall("_insert", point, payload, r.res)
        /\ qdirect' = qdirect + 1
        /\ UNCHANGED <<qins, tvars, avars, ctvars, cqvars, lkvars>>

\* find, find_within and len read the tree and change nothing: they are the
\* operators above, applied to the states these calls reach.
QuadNext == QInsert \/ QInsertAt

\* ------------------------------------------------------------ Arc<RwLock<T>>

\* A cell is an allocation [node, strong]; cells are numbered in the order
\* they are allocated.  SharedRef::new: a fresh cell with one owner.
arc_new(heap, s, node) == (s :> [node |-> node, strong |-> 1]) @@ heap

\* Arc::clone: one more owner of the same cell.
arc_clone(heap, s) == [heap EXCEPT ![s].strong = @ + 1]

\* Dropping an Arc frees the cell although others still own it.
arc_drop_frees(heap, s) == [t \in (DOMAIN heap) \ {s} |-> heap[t]]

\* Dropping an Arc: one owner fewer; the last owner frees the cell.
arc_drop(heap, s) ==
    IF heap[s].strong = 1
    THEN [t \in (DOMAIN heap) \ {s} |-> heap[t]]
    ELSE [heap EXCEPT ![s].strong = @ - 1]

\* ----------------------------------------------------------- arena: the inputs

\* Caps on the cells allocated, the identities issued and the handles held
\* at one time (the program has no such limits).
MaxCells == 3
MaxIssued == 3
MaxHandles == 2

\* The identities callers pass, and the nodes they add.
ArenaIds == {0, 1}
ArenaNodes == {[id |-> i, payload |-> v] : i \in ArenaIds, v \in Values}

\* node is the Option of the node passed to add_node.
ACall(op, id, node, res) == [op |-> op, id |-> id, node |-> node, res |-> res]

\* The lowest address no cell occupies.
FreeAddress(heap) == CHOOSE s \in 0..Cardinality(DOMAIN heap) : s \notin DOMAIN heap

\* The sequence s without its i-th element.
RemoveAt(s, i) == [k \in 1..(Len(s) - 1) |-> IF k < i THEN s[k] ELSE s[k + 1]]

ArenaInit ==
    /\ aarena = ArenaNew
    /\ aslot = <<>>
    /\ aheap = <<>>
    /\ aheld = <<>>
    /\ acall = ACall("new", 0, None, Ok(None))
    /\ aissued = <<>>

\* arena.get_new_id()
AGetNewId ==
    /\ aarena.id_counter < MaxIssued
    /\ \E r \in {get_new_id(aarena)} :
          /\ aarena' = r.arena
          /\ aissued' = Append(aissued, r.id)
          /\ acall' = ACall("get_new_id", r.id, None, Ok(r.id))
    /\ UNCHANGED <<aslot, aheap, aheld, tvars, qvars, ctvars, cqvars, lkvars>>

\* arena.add_node(node): on success the table owns a new cell holding node,
\* allocated at the lowest free address.
AAddNode ==
    \E node \in ArenaNodes :
        /\ Cardinality(DOMAIN aheap) < MaxCells
        /\ \E r \in {add_node(aarena, node)} :
              /\ aarena' = r.arena
              /\ acall' = ACall("add_node", node.id, Some(node), r.res)
              /\ IF r.res.kind = "Ok"
                 THEN \E s \in {FreeAddress(aheap)} :
                        /\ aheap' = arc_new(aheap, s, node)
                        /\ aslot' = (node.id :> s) @@ aslot
                 ELSE UNCHANGED <<aslot, aheap>>
        /\ UNCHANGED <<aheld, aissued, tvars, qvars, ctvars, cqvars, lkvars>>

\* arena.delete_node(id): on success the entry is removed and the table's
\* Arc, returned by HashMap::remove, is dropped.
ADeleteNode ==
    \E id \in ArenaIds :
        /\ \E r \in {delete_node(aarena, id)} :
              /\ aarena' = r.arena
              /\ acall' = ACall("delete_node", id, None, r.res)
              /\ IF r.res.kind = "Ok"
                 THEN /\ aheap' = arc_drop(aheap, aslot[id])
                      /\ aslot' = [i \in (DOMAIN aslot) \ {id} |-> aslot[i]]
                 ELSE UNCHANGED <<aslot, aheap>>
        /\ UNCHANGED <<aheld, aissued, tvars, qvars, ctvars, cqvars, lkvars>>

\* arena.get_node(id), the caller keeping the handle: a clone of the table's
\* Arc when there is an entry.
AGetNode ==
    \E id \in ArenaIds :
        /\ Len(aheld) < MaxHandles
        /\ \E r \in {get_node(aarena, id)} :
              /\ acall' = ACall("get_node", id, None, Ok(r))
              /\ IF r # None
                 THEN /\ aheap' = arc_clone(aheap, aslot[id])
                      /\ aheld' = Append(aheld, aslot[id])
                 ELSE UNCHANGED <<aheap, aheld>>
        /\ UNCHANGED <<aarena, aslot, aissued, tvars, qvars, ctvars, cqvars, lkvars>>

\* The caller drops one of its handles.
ADropHandle ==
    \E i \in 1..Len(aheld) :
        /\ aheap' = arc_drop(aheap, aheld[i])
        /\ aheld' = RemoveAt(aheld, i)
        /\ acall' = ACall("drop", 0, None, Ok(None))
        /\ UNCHANGED <<aarena, aslot, aissued, tvars, qvars, ctvars, cqvars, lkvars>>

ArenaNext == AGetNewId \/ AAddNode \/ ADeleteNode \/ AGetNode \/ ADropHandle

\* ------------------------------------------------- trie: concurrent inserts

\* The threads, the value each inserts, and the keys they pick from: a, aa,
\* ab, b and a!.
Threads == {1, 2}
ThreadVal(t) == t
ConcKeys == {<<97>>, <<97, 97>>, <<97, 98>>, <<98>>, <<97, 33>>}

\* A thread between calls.
Idle == [pc |-> "idle", key |-> <<>>, seq |-> <<>>, node_id |-> 0, next_id |-> 0,
         res |-> Ok(None)]

TrieConcInit ==
    /\ ctrie = TrieNew(TheGrammar)
    /\ tborrow = None
    /\ tthr = [t \in Threads |-> Idle]

\* A mutable borrow granted whoever else holds the trie.
borrow_unchecked(borrow, t) == TRUE

\* insert takes &mut self: a thread calls it only while no other thread holds
\* the trie.  A panic unwinds out of insert and the borrow ends.
CanBorrowMut(borrow, t) == borrow = None

\* Trie::insert up to the first call of _insert_apply: the key is encoded; an
\* unknown symbol is a panic, which gives the trie back.
TBegin(t) ==
    /\ tthr[t].pc = "idle"
    /\ CanBorrowMut(tborrow, t)
    /\ \E key \in ConcKeys :
          \E p \in {preprocess_seq(ctrie, key)} :
             IF p.kind = "Ok"
             THEN /\ tborrow' = Some(t)
                  /\ tthr' = [tthr EXCEPT ![t] = [Idle EXCEPT
                                 !.pc = "enter", !.key = key, !.seq = p.val,
                                 !.node_id = ctrie.root]]
             ELSE /\ tborrow' = tborrow
                  /\ tthr' = [tthr EXCEPT ![t] = [Idle EXCEPT
                                 !.pc = "panicked", !.key = key, !.res = p]]
    /\ UNCHANGED <<ctrie, tvars, qvars, avars, cqvars, lkvars>>

\* _insert_apply, seq not empty: children[*idx] is read under a read guard
\* that is dropped at the end of the statement.
TReadChild(t) ==
    /\ tthr[t].pc = "enter"
    /\ tthr[t].seq # <<>>
    /\ \E node_ref \in {get_node(ctrie.arena, tthr[t].node_id)} :
          IF node_ref = None
          THEN tthr' = [tthr EXCEPT ![t].pc = "panicked",
                                    ![t].res = Panic("node doesnt exist!")]
          ELSE \E child_id \in {node_ref[1].children[Head(tthr[t].seq)]} :
                 IF child_id = None
                 THEN tthr' = [tthr EXCEPT ![t].pc = "new_id"]
                 ELSE tthr' = [tthr EXCEPT ![t].node_id = child_id[1],
                                           ![t].seq = Tail(@)]
    /\ tborrow' = IF tthr'[t].pc = "panicked" THEN None ELSE tborrow
    /\ UNCHANGED <<ctrie, tvars, qvars, avars, cqvars, lkvars>>

\* The slot was empty: self.arena.get_new_id().
TNewId(t) ==
    /\ tthr[t].pc = "new_id"
    /\ \E g \in {get_new_id(ctrie.arena)} :
          /\ ctrie' = [ctrie EXCEPT !.arena = g.arena]
          /\ tthr' = [tthr EXCEPT ![t].pc = "add", ![t].next_id = g.id]
    /\ UNCHANGED <<tborrow, tvars, qvars, avars, cqvars, lkvars>>

\* The child is built with the parent's arity and added to the arena.
TAddChild(t) ==
    /\ tthr[t].pc = "add"
    /\ \E a \in {add_node(ctrie.arena,
                     TrieNodeNew(tthr[t].next_id, None,
                                 ctrie.arena.storage[tthr[t].node_id].arity))} :
          /\ ctrie' = [ctrie EXCEPT !.arena = a.arena]
          /\ tthr' = IF a.res.kind = "Ok"
                     THEN [tthr EXCEPT ![t].pc = "link"]
                     ELSE [tthr EXCEPT ![t].pc = "panicked",
                                       ![t].res = Panic("could not add node!")]
    /\ tborrow' = IF tthr'[t].pc = "panicked" THEN None ELSE tborrow
    /\ UNCHANGED <<tvars, qvars, avars, cqvars, lkvars>>

\* node_ref.write().unwrap().children[*idx] = Some(next_id), then the
\* recursive call on the child with the rest of the key.
TLinkChild(t) ==
    /\ tthr[t].pc = "link"
    /\ \E node \in {ctrie.arena.storage[tthr[t].node_id]} :
          ctrie' = [ctrie EXCEPT !.arena = WriteCell(@,
                      [node EXCEPT !.children[Head(tthr[t].seq)] = Some(tthr[t].next_id)])]
    /\ tthr' = [tthr EXCEPT ![t].pc = "enter", ![t].node_id = tthr[t].next_id,
                            ![t].seq = Tail(@)]
    /\ UNCHANGED <<tborrow, tvars, qvars, avars, cqvars, lkvars>>

\* _insert_apply, seq empty: the whole block runs under the node's write
\* guard.
TTerminal(t) ==
    /\ tthr[t].pc = "enter"
    /\ tthr[t].seq = <<>>
    /\ \E r \in {insert_apply_terminal(ctrie, tthr[t].node_id, ThreadVal(t), NoFn,
                                        "ReturnError")} :
          /\ ctrie' = r.self
          /\ tthr' = [tthr EXCEPT
                        ![t].pc = IF r.res.kind = "Panic" THEN "panicked" ELSE "ret",
                        ![t].res = IF r.res.kind = "Ok" THEN Ok(None) ELSE r.res]
    /\ tborrow' = IF tthr'[t].pc = "panicked" THEN None ELSE tborrow
    /\ UNCHANGED <<tvars, qvars, avars, cqvars, lkvars>>

\* insert returns and the borrow ends.
TReturn(t) ==
    /\ tthr[t].pc = "ret"
    /\ tborrow' = None
    /\ tthr' = [tthr EXCEPT ![t].pc = "done"]
    /\ UNCHANGED <<ctrie, tvars, qvars, avars, cqvars, lkvars>>

TStep(t) ==
    \/ TBegin(t) \/ TReadChild(t) \/ TNewId(t) \/ TAddChild(t)
    \/ TLinkChild(t) \/ TTerminal(t) \/ TReturn(t)

TrieConcNext == \E t \in Threads : TStep(t)

\* ------------------------------------------- quadtree: concurrent callers

\* Thread 1 inserts, thread 2 queries.
Inserters == {1}
Readers == {2}
\* Cap on the points the inserter stores.
ConcPoints == 2
\* The points inserted (payload 1 each) and the boxes queried.
CPoints == {<<0, 0>>, <<1, 1>>, <<1, 0>>, <<2, 2>>}
CQueries == {RootBBox, [min |-> <<1, 0>>, max |-> <<2, 2>>]}

\* A thread between calls.  stack holds one frame [quad_id, i] per active
\* call of _insert or _find_within, the innermost last; i is the child the
\* frame's loop is at.  res is the last result: a bool for the inserter, a
\* list of points for the reader.
QIdle(t) == [pc |-> "idle", elem |-> <<<<0, 0>>, 1>>, query |-> RootBBox, cur |-> 0,
             stack |-> <<>>, kids |-> <<>>, ret |-> FALSE, out |-> <<>>,
             res |-> IF t \in Inserters THEN Ok(FALSE) ELSE Ok(<<>>)]

QuadConcInit ==
    /\ cquad = QuadtreeNew(RootBBox)
    /\ qborrow = [writer |-> None, readers |-> {}]
    /\ qlock = {}
    /\ qthr = [t \in Inserters \cup Readers |-> QIdle(t)]

\* insert takes &mut self: no other thread holds the tree.
CanBorrowQuadMut(borrow) == borrow.writer = None /\ borrow.readers = {}

\* find_within takes &self: no thread holds the tree mutably.
CanBorrowQuadShared(borrow) == borrow.writer = None

\* The borrow of t ends.
EndBorrow(borrow, t) ==
    [writer |-> IF borrow.writer = Some(t) THEN None ELSE borrow.writer,
     readers |-> borrow.readers \ {t}]

\* RwLock: write() needs the lock free, read() needs no writer; a lock whose
\* write guard was dropped by a panic is poisoned, and unwrap() on it panics.
CanLockWrite(locks, id) == \A lk \in locks : lk.id # id
CanLockRead(locks, id) == \A lk \in locks : lk.id = id => lk.mode = "r"
Poisoned(locks, id) == \E lk \in locks : lk.id = id /\ lk.mode = "poisoned"

\* Unwinding thread t: its read guards are released, its write guards poison
\* their locks.
Unwind(locks, t) ==
    {lk \in locks : lk.t # t}
    \cup {[lk EXCEPT !.mode = "poisoned"] : lk \in {l \in locks : l.t = t /\ l.mode = "w"}}

\* Thread t panics with message m.
QPanic(t, m) ==
    /\ qthr' = [qthr EXCEPT ![t].pc = "panicked", ![t].res = Panic(m)]
    /\ qlock' = Unwind(qlock, t)
    /\ qborrow' = EndBorrow(qborrow, t)
    /\ UNCHANGED cquad

\* The innermost frame of t, and the quad it is in.
Top(t) == qthr[t].stack[Len(qthr[t].stack)]
TopQuad(t) == cquad.arena.storage[Top(t).quad_id]

\* The stack with the innermost frame's loop moved to the next child.
NextChild(stack) == [stack EXCEPT ![Len(stack)].i = @ + 1]

\* PointQuadtree::insert up to the call of _insert on the root.
WBegin(t) ==
    /\ t \in Inserters
    /\ qthr[t].pc = "idle"
    /\ CanBorrowQuadMut(qborrow)
    /\ quad_len(cquad) < ConcPoints
    /\ \E point \in CPoints :
          qthr' = [qthr EXCEPT ![t] = [QIdle(t) EXCEPT !.pc = "w_enter",
                                        !.elem = <<point, 1>>, !.cur = cquad.root_id]]
    /\ qborrow' = [qborrow EXCEPT !.writer = Some(t)]
    /\ UNCHANGED <<cquad, qlock, tvars, qvars, avars, ctvars, lkvars>>

\* _insert from its entry to its first return, subdivision or descent: the
\* quad's write guard is taken and held.
WEnter(t) ==
    /\ qthr[t].pc = "w_enter"
    /\ \E quad_ref \in {get_node(cquad.arena, qthr[t].cur)} :
          IF quad_ref = None THEN QPanic(t, "could not find node")
          ELSE IF Poisoned(qlock, qthr[t].cur) THEN QPanic(t, "PoisonError")
          ELSE /\ CanLockWrite(qlock, qthr[t].cur)
               /\ qlock' = qlock \cup {[t |-> t, id |-> qthr[t].cur, mode |-> "w"]}
               /\ qborrow' = qborrow
               /\ \E quad \in {quad_ref[1]}, st \in {Append(qthr[t].stack,
                                        [quad_id |-> qthr[t].cur, i |-> 1])} :
                     IF ~contains(quad.bbox, qthr[t].elem[1])
                     THEN /\ qthr' = [qthr EXCEPT ![t].pc = "w_ret", ![t].stack = st,
                                                   ![t].ret = FALSE]
                          /\ cquad' = cquad
                     ELSE IF quad.point = None
                     THEN /\ qthr' = [qthr EXCEPT ![t].pc = "w_ret", ![t].stack = st,
                                                   ![t].ret = TRUE]
                          /\ cquad' = [cquad EXCEPT !.arena = WriteCell(@,
                                          [quad EXCEPT !.point = Some(qthr[t].elem)])]
                     ELSE IF quad.point[1][1] = qthr[t].elem[1]
                     THEN /\ qthr' = [qthr EXCEPT ![t].pc = "w_ret", ![t].stack = st,
                                                   ![t].ret = FALSE]
                          /\ cquad' = cquad
                     ELSE /\ qthr' = [qthr EXCEPT
                                        ![t].pc = IF quad.children = None THEN "w_sub"
                                                  ELSE "w_child",
                                        ![t].stack = st]
                          /\ cquad' = cquad
    /\ UNCHANGED <<tvars, qvars, avars, ctvars, lkvars>>

\* One call of add_one during the subdivision: the next of the four boxes
\* gets a new quad in the arena.  When add_node fails the call panics with
\* the identity already taken from the counter.
WAddOne(t) ==
    /\ qthr[t].pc = "w_sub"
    /\ Len(qthr[t].kids) < 4
    /\ \E boxes \in {subdivide(TopQuad(t).bbox, TopQuad(t).point[1][1])} :
          \E c \in {add_one(cquad.arena, boxes[Len(qthr[t].kids) + 1])} :
             IF c.res.kind = "Ok"
             THEN /\ cquad' = [cquad EXCEPT !.arena = c.arena]
                  /\ qthr' = [qthr EXCEPT ![t].kids = Append(@, c.id)]
                  /\ UNCHANGED <<qlock, qborrow>>
             ELSE /\ cquad' = [cquad EXCEPT !.arena = c.arena]
                  /\ qthr' = [qthr EXCEPT ![t].pc = "panicked",
                                           ![t].res = Panic("could not add node!")]
                  /\ qlock' = Unwind(qlock, t)
                  /\ qborrow' = EndBorrow(qborrow, t)
    /\ UNCHANGED <<tvars, qvars, avars, ctvars, lkvars>>

\* quad.children = Some([..]) once the four calls of add_one have returned.
WSetChildren(t) ==
    /\ qthr[t].pc = "w_sub"
    /\ Len(qthr[t].kids) = 4
    /\ cquad' = [cquad EXCEPT !.arena = WriteCell(@,
                    [TopQuad(t) EXCEPT !.children = Some(qthr[t].kids)])]
    /\ qthr' = [qthr EXCEPT ![t].pc = "w_child", ![t].kids = <<>>]
    /\ UNCHANGED <<qlock, qborrow, tvars, qvars, avars, ctvars, lkvars>>

\* iter().any(..): _insert is called on the next child, or any returns false
\* after the last one.
WChild(t) ==
    /\ qthr[t].pc = "w_child"
    /\ IF Top(t).i > Len(TopQuad(t).children[1])
       THEN qthr' = [qthr EXCEPT ![t].pc = "w_ret", ![t].ret = FALSE]
       ELSE qthr' = [qthr EXCEPT ![t].pc = "w_enter",
                                 ![t].cur = TopQuad(t).children[1][Top(t).i]]
    /\ UNCHANGED <<cquad, qlock, qborrow, tvars, qvars, avars, ctvars, lkvars>>

\* _insert returns and its write guard is dropped.  The outermost return
\* ends insert (the count grows on true); an inner true ends the caller's
\* any, an inner false moves it to the next child.
WRet(t) ==
    /\ qthr[t].pc = "w_ret"
    /\ qlock' = qlock \ {[t |-> t, id |-> Top(t).quad_id, mode |-> "w"]}
    /\ \E st \in {SubSeq(qthr[t].stack, 1, Len(qthr[t].stack) - 1)} :
          IF st = <<>>
          THEN /\ cquad' = IF qthr[t].ret THEN [cquad EXCEPT !.size = @ + 1] ELSE cquad
               /\ qthr' = [qthr EXCEPT ![t] = [QIdle(t) EXCEPT !.res = Ok(qthr[t].ret)]]
               /\ qborrow' = EndBorrow(qborrow, t)
          ELSE /\ qthr' = IF qthr[t].ret
                          THEN [qthr EXCEPT ![t].stack = st]
                          ELSE [qthr EXCEPT ![t].stack = NextChild(st),
                                            ![t].pc = "w_child"]
               /\ UNCHANGED <<cquad, qborrow>>
    /\ UNCHANGED <<tvars, qvars, avars, ctvars, lkvars>>

\* PointQuadtree::find_within up to the call of _find_within on the root.
RBegin(t) ==
    /\ t \in Readers
    /\ qthr[t].pc = "idle"
    /\ CanBorrowQuadShared(qborrow)
    /\ \E query \in CQueries :
          qthr' = [qthr EXCEPT ![t] = [QIdle(t) EXCEPT !.pc = "r_enter",
                                        !.query = query, !.cur = cquad.root_id]]
    /\ qborrow' = [qborrow EXCEPT !.readers = @ \cup {t}]
    /\ UNCHANGED <<cquad, qlock, tvars, qvars, avars, ctvars, lkvars>>

\* _find_within from its entry to its return or its loop over the children:
\* the quad's read guard is taken and held.
REnter(t) ==
    /\ qthr[t].pc = "r_enter"
    /\ \E quad_ref \in {get_node(cquad.arena, qthr[t].cur)} :
          IF quad_ref = None THEN QPanic(t, "could not find node")
          ELSE IF Poisoned(qlock, qthr[t].cur) THEN QPanic(t, "PoisonError")
          ELSE /\ CanLockRead(qlock, qthr[t].cur)
               /\ qlock' = qlock \cup {[t |-> t, id |-> qthr[t].cur, mode |-> "r"]}
               /\ UNCHANGED <<cquad, qborrow>>
               /\ \E quad \in {quad_ref[1]}, st \in {Append(qthr[t].stack,
                                        [quad_id |-> qthr[t].cur, i |-> 1])} :
                     IF ~intersects(quad.bbox, qthr[t].query)
                     THEN qthr' = [qthr EXCEPT ![t].pc = "r_ret", ![t].stack = st]
                     ELSE qthr' = [qthr EXCEPT
                             ![t].pc = IF quad.children = None THEN "r_ret"
                                       ELSE "r_child",
                             ![t].stack = st,
                             ![t].out = IF quad.point # None
                                           /\ contains(qthr[t].query, quad.point[1][1])
                                        THEN Append(@, quad.point[1]) ELSE @]
    /\ UNCHANGED <<tvars, qvars, avars, ctvars, lkvars>>

\* The loop over the children: _find_within is called on the next child, or
\* the loop ends.
RChild(t) ==
    /\ qthr[t].pc = "r_child"
    /\ IF Top(t).i > Len(TopQuad(t).children[1])
       THEN qthr' = [qthr EXCEPT ![t].pc = "r_ret"]
       ELSE qthr' = [qthr EXCEPT ![t].pc = "r_enter",
                                 ![t].cur = TopQuad(t).children[1][Top(t).i]]
    /\ UNCHANGED <<cquad, qlock, qborrow, tvars, qvars, avars, ctvars, lkvars>>

\* _find_within returns and its read guard is dropped; the outermost return
\* ends find_within with the points collected.
RRet(t) ==
    /\ qthr[t].pc = "r_ret"
    /\ qlock' = qlock \ {[t |-> t, id |-> Top(t).quad_id, mode |-> "r"]}
    /\ \E st \in {SubSeq(qthr[t].stack, 1, Len(qthr[t].stack) - 1)} :
          IF st = <<>>
          THEN /\ qthr' = [qthr EXCEPT ![t] = [QIdle(t) EXCEPT !.res = Ok(qthr[t].out)]]
               /\ qborrow' = EndBorrow(qborrow, t)
          ELSE /\ qthr' = [qthr EXCEPT ![t].stack = NextChild(st),
                                       ![t].pc = "r_child"]
               /\ qborrow' = qborrow
    /\ UNCHANGED <<cquad, tvars, qvars, avars, ctvars, lkvars>>

QStep(t) ==
    \/ WBegin(t) \/ WEnter(t) \/ WAddOne(t) \/ WSetChildren(t) \/ WChild(t)
    \/ WRet(t) \/ RBegin(t) \/ REnter(t) \/ RChild(t) \/ RRet(t)

QuadConcNext == \E t \in Inserters \cup Readers : QStep(t)

\* ------------------------------------------- trie: the node guards of a call

\* One caller runs insert, insert_or_update, insert_or_apply, find and delete
\* on a trie, one statement at a time.  A guard is [id, mode, depth]: a read
\* ("r") or write ("w") guard on the content lock of node id, owned by the
\* frame at that depth of the call stack.  A guard that is a temporary of a
\* let or assignment statement is taken and dropped within the statement; a
\* guard bound by let, or a temporary of a match scrutinee or of a tail
\* expression, lives until its frame ends.
LockOps == {"insert", "insert_or_update", "insert_or_apply", "find", "delete"}
InsertOps == {"insert", "insert_or_update", "insert_or_apply"}

Guard(id, mode, depth) == [id |-> id, mode |-> mode, depth |-> depth]

Frame(node_id, seq) == [node_id |-> node_id, seq |-> seq, child |-> 0]

LkIdle == [pc |-> "idle", op |-> "new", key |-> <<>>, t |-> DefaultT, f |-> NoFn,
           next_id |-> 0, deleted |-> FALSE, res |-> Ok(None)]

TrieLockInit ==
    /\ ltrie = TrieNew(TheGrammar)
    /\ lcall = LkIdle
    /\ lstack = <<>>
    /\ lheld = {}
    /\ lacq = {}

\* The innermost frame and the node it is at.
LTop == lstack[Len(lstack)]
LDepth == Len(lstack)

\* The closure _insert_apply receives from each entry point.
ClosureOf(op, t) ==
    IF op = "insert" THEN [x \in Values |-> DefaultT]
    ELSE IF op = "insert_or_update" THEN [x \in Values |-> t]
    ELSE CHOOSE f \in Fns : TRUE

OnCollisionOf(op) == IF op = "insert" THEN "ReturnError" ELSE "ApplyFn"

\* The call panics: unwinding drops every guard.
LkPanic(res) ==
    /\ lcall' = [lcall EXCEPT !.pc = "panicked", !.res = res]
    /\ lheld' = {}

\* The recursive call on node id with the rest of the sequence.
LkPush(id) ==
    lstack' = Append([lstack EXCEPT ![Len(lstack)].child = id],
                     Frame(id, Tail(LTop.seq)))

\* The public entry points up to the first recursive call: find and delete
\* answer at once on an empty trie; the key is encoded, an unknown symbol is
\* a panic.
LkBegin ==
    /\ lcall.pc = "idle"
    /\ \E op \in LockOps, key \in ConcKeys :
       \E t \in (IF op \in InsertOps THEN Values ELSE {DefaultT}) :
          /\ ltrie.arena.id_counter + (IF op \in InsertOps THEN Len(key) ELSE 0) <= MaxId
          /\ IF op \in {"find", "delete"} /\ is_empty(ltrie)
             THEN /\ lcall' = [LkIdle EXCEPT
                       !.op = op, !.key = key, !.t = t,
                       !.res = IF op = "find" THEN Ok(None)
                               ELSE Err("sequence not found because container is empty!")]
                  /\ UNCHANGED lstack
             ELSE \E p \in {preprocess_seq(ltrie, key)} :
                    IF p.kind # "Ok"
                    THEN /\ lcall' = [LkIdle EXCEPT !.op = op, !.key = key, !.t = t,
                                                    !.pc = "panicked", !.res = p]
                         /\ UNCHANGED lstack
                    ELSE /\ lcall' = [LkIdle EXCEPT !.op = op, !.key = key, !.t = t,
                                                    !.f = ClosureOf(op, t), !.pc = "enter"]
                         /\ lstack' = <<Frame(ltrie.root, p.val)>>
    /\ lacq' = {}
    /\ UNCHANGED <<ltrie, lheld, tvars, qvars, avars, ctvars, cqvars>>

\* _insert_apply, seq empty: let mut node = node_ref.write().unwrap() and the
\* whole block under it.
LkInsertTerminal ==
    /\ lcall.pc = "enter" /\ lcall.op \in InsertOps
    /\ LTop.seq = <<>>
    /\ \E r \in {insert_apply_terminal(ltrie, LTop.node_id, lcall.t, lcall.f,
                                        OnCollisionOf(lcall.op))} :
          IF r.res.kind = "Panic"
          THEN LkPanic(r.res) /\ UNCHANGED <<ltrie, lacq>>
          ELSE \E g \in {Guard(LTop.node_id, "w", LDepth)} :
                 /\ lacq' = lheld \cup {g}
                 /\ lheld' = lheld \cup {g}
                 /\ ltrie' = r.self
                 /\ lcall' = [lcall EXCEPT !.pc = "ret", !.res = r.res]
    /\ UNCHANGED <<lstack, tvars, qvars, avars, ctvars, cqvars>>

\* _insert_apply, seq not empty: let child_id =
\* node_ref.read().unwrap().children[*idx]; a child that exists is recursed
\* into.
LkInsertReadChild ==
    /\ lcall.pc = "enter" /\ lcall.op \in InsertOps
    /\ LTop.seq # <<>>
    /\ \E node_ref \in {get_node(ltrie.arena, LTop.node_id)} :
          IF node_ref = None
          THEN LkPanic(Panic("node doesnt exist!")) /\ UNCHANGED <<lstack, lacq>>
          ELSE /\ lacq' = lheld \cup {Guard(LTop.node_id, "r", LDepth)}
               /\ UNCHANGED lheld
               /\ \E child_id \in {node_ref[1].children[Head(LTop.seq)]} :
                     IF child_id = None
                     THEN lcall' = [lcall EXCEPT !.pc = "new_id"] /\ UNCHANGED lstack
                     ELSE LkPush(child_id[1]) /\ UNCHANGED lcall
    /\ UNCHANGED <<ltrie, tvars, qvars, avars, ctvars, cqvars>>

\* let next_id = self.arena.get_new_id();
LkInsertNewId ==
    /\ lcall.pc = "new_id"
    /\ \E g \in {get_new_id(ltrie.arena)} :
          /\ ltrie' = [ltrie EXCEPT !.arena = g.arena]
          /\ lcall' = [lcall EXCEPT !.pc = "add", !.next_id = g.id]
    /\ UNCHANGED <<lstack, lheld, lacq, tvars, qvars, avars, ctvars, cqvars>>

\* The child is built (the parent's arity is read under a read guard of the
\* let statement) and added to the arena.
LkInsertAddChild ==
    /\ lcall.pc = "add"
    /\ lacq' = lheld \cup {Guard(LTop.node_id, "r", LDepth)}
    /\ \E a \in {add_node(ltrie.arena,
                     TrieNodeNew(lcall.next_id, None,
                                 ltrie.arena.storage[LTop.node_id].arity))} :
          /\ ltrie' = [ltrie EXCEPT !.arena = a.arena]
          /\ IF a.res.kind = "Ok"
             THEN lcall' = [lcall EXCEPT !.pc = "link"] /\ UNCHANGED lheld
             ELSE LkPanic(Panic("could not add node!"))
    /\ UNCHANGED <<lstack, tvars, qvars, avars, ctvars, cqvars>>

\* node_ref.write().unwrap().children[*idx] = Some(next_id); then the
\* recursive call on the child.
LkInsertLink ==
    /\ lcall.pc = "link"
    /\ lacq' = lheld \cup {Guard(LTop.node_id, "w", LDepth)}
    /\ \E node \in {ltrie.arena.storage[LTop.node_id]} :
          ltrie' = [ltrie EXCEPT !.arena = WriteCell(@,
                      [node EXCEPT !.children[Head(LTop.seq)] = Some(lcall.next_id)])]
    /\ LkPush(lcall.next_id)
    /\ lcall' = [lcall EXCEPT !.pc = "enter"]
    /\ UNCHANGED <<lheld, tvars, qvars, avars, ctvars, cqvars>>

\* _find, seq empty: node_ref.read().unwrap().payload.clone(), the value of
\* the function; a node that is not in the arena gives None.
LkFindPayload ==
    /\ lcall.pc = "enter" /\ lcall.op = "find"
    /\ LTop.seq = <<>>
    /\ \E node_ref \in {get_node(ltrie.arena, LTop.node_id)} :
          IF node_ref = None
          THEN /\ lcall' = [lcall EXCEPT !.pc = "ret", !.res = Ok(None)]
               /\ UNCHANGED <<lheld, lacq>>
          ELSE \E g \in {Guard(LTop.node_id, "r", LDepth)} :
                 /\ lacq' = lheld \cup {g}
                 /\ lheld' = lheld \cup {g}
                 /\ lcall' = [lcall EXCEPT !.pc = "ret", !.res = Ok(node_ref[1].payload)]
    /\ UNCHANGED <<ltrie, lstack, tvars, qvars, avars, ctvars, cqvars>>

\* _find, seq not empty: match node_ref.read().unwrap().children[*next_idx]
\* with the recursive call in its Some arm: the read guard is a temporary of
\* the scrutinee and lives to the end of the match.
LkFindChild ==
    /\ lcall.pc = "enter" /\ lcall.op = "find"
    /\ LTop.seq # <<>>
    /\ \E node_ref \in {get_node(ltrie.arena, LTop.node_id)} :
          IF node_ref = None
          THEN /\ lcall' = [lcall EXCEPT !.pc = "ret", !.res = Ok(None)]
               /\ UNCHANGED <<lstack, lheld, lacq>>
          ELSE \E g \in {Guard(LTop.node_id, "r", LDepth)} :
                 /\ lacq' = lheld \cup {g}
                 /\ lheld' = lheld \cup {g}
                 /\ \E child \in {node_ref[1].children[Head(LTop.seq)]} :
                       IF child = None
                       THEN /\ lcall' = [lcall EXCEPT !.pc = "ret", !.res = Ok(None)]
                            /\ UNCHANGED lstack
                       ELSE LkPush(child[1]) /\ UNCHANGED lcall
    /\ UNCHANGED <<ltrie, tvars, qvars, avars, ctvars, cqvars>>

\* _delete, seq empty: let mut node = node_ref.write().unwrap() and the block
\* under it; get_node(node_id).unwrap() panics on a node that is not in the
\* arena.
LkDeleteTerminal ==
    /\ lcall.pc = "enter" /\ lcall.op = "delete"
    /\ LTop.seq = <<>>
    /\ \E node_ref \in {get_node(ltrie.arena, LTop.node_id)} :
          IF node_ref = None
          THEN /\ LkPanic(Panic("called Option::unwrap() on a None value"))
               /\ UNCHANGED <<ltrie, lacq>>
          ELSE \E r \in {delete_terminal(ltrie, node_ref[1])},
                  g \in {Guard(LTop.node_id, "w", LDepth)} :
                 /\ lacq' = lheld \cup {g}
                 /\ ltrie' = r.self
                 /\ IF r.res.kind = "Panic" THEN LkPanic(r.res)
                    ELSE /\ lheld' = lheld \cup {g}
                         /\ lcall' = [lcall EXCEPT !.pc = "ret", !.res = r.res,
                                                   !.deleted = r.deleted]
    /\ UNCHANGED <<lstack, tvars, qvars, avars, ctvars, cqvars>>

\* _delete, seq not empty: let child_id =
\* node_ref.read().unwrap().children[*next_idx]; then the recursive call.
LkDeleteReadChild ==
    /\ lcall.pc = "enter" /\ lcall.op = "delete"
    /\ LTop.seq # <<>>
    /\ \E node_ref \in {get_node(ltrie.arena, LTop.node_id)} :
          IF node_ref = None
          THEN /\ LkPanic(Panic("called Option::unwrap() on a None value"))
               /\ UNCHANGED <<lstack, lacq>>
          ELSE /\ lacq' = lheld \cup {Guard(LTop.node_id, "r", LDepth)}
               /\ UNCHANGED lheld
               /\ \E child_id \in {node_ref[1].children[Head(LTop.seq)]} :
                     IF child_id = None
                     THEN /\ lcall' = [lcall EXCEPT !.pc = "ret",
                                          !.res = Err("sequence not found!")]
                          /\ UNCHANGED lstack
                     ELSE LkPush(child_id[1]) /\ UNCHANGED lcall
    /\ UNCHANGED <<ltrie, tvars, qvars, avars, ctvars, cqvars>>

\* _delete after the recursive call returned Ok: let mut node =
\* node_ref.write().unwrap() and the block under it.
LkDeleteUnwind ==
    /\ lcall.pc = "unwind"
    /\ \E r \in {delete_unwind(ltrie, LTop.node_id, Head(LTop.seq), LTop.child,
                                lcall.deleted, lcall.res.val)},
          g \in {Guard(LTop.node_id, "w", LDepth)} :
          /\ lacq' = lheld \cup {g}
          /\ ltrie' = r.self
          /\ IF r.res.kind = "Panic" THEN LkPanic(r.res)
             ELSE /\ lheld' = lheld \cup {g}
                  /\ lcall' = [lcall EXCEPT !.pc = "ret", !.res = r.res,
                                            !.deleted = r.deleted]
    /\ UNCHANGED <<lstack, tvars, qvars, avars, ctvars, cqvars>>

\* The innermost frame returns: its guards are dropped.  The caller of
\* _insert_apply and of _find returns the value as it is, the caller of
\* _delete passes an Err on and goes on with an Ok; insert turns Ok(_) into
\* Ok(()).
LkReturn ==
    /\ lcall.pc = "ret"
    /\ lstack' = SubSeq(lstack, 1, Len(lstack) - 1)
    /\ lheld' = {g \in lheld : g.depth < LDepth}
    /\ lcall' = IF LDepth = 1
                THEN [lcall EXCEPT !.pc = "idle",
                         !.res = IF lcall.op = "insert" /\ @.kind = "Ok"
                                 THEN Ok(None) ELSE @]
                ELSE IF lcall.op = "delete" /\ lcall.res.kind = "Ok"
                THEN [lcall EXCEPT !.pc = "unwind"]
                ELSE lcall
    /\ UNCHANGED <<ltrie, lacq, tvars, qvars, avars, ctvars, cqvars>>

TrieLockNext ==
    \/ LkBegin
    \/ LkInsertTerminal \/ LkInsertReadChild \/ LkInsertNewId
    \/ LkInsertAddChild \/ LkInsertLink
    \/ LkFindPayload \/ LkFindChild
    \/ LkDeleteTerminal \/ LkDeleteReadChild \/ LkDeleteUnwind
    \/ LkReturn

\* ------------------------------------------------------------ specifications

Init ==
    /\ TrieInit /\ QuadInit /\ ArenaInit
    /\ TrieConcInit /\ QuadConcInit /\ TrieLockInit

\* The trie alone, and the quadtree alone, under any sequence of calls.
SpecTrie == Init /\ [][TrieNext]_vars

SpecQuad == Init /\ [][QuadNext]_vars

\* The quadtree under any sequence of calls of insert.
SpecQuadInserts == Init /\ [][QInsert]_vars

\* An arena alone, under any sequence of calls by one owner.
SpecArena == Init /\ [][ArenaNext]_vars

\* Threads inserting into one trie, each step taken by any thread.
SpecTrieConc == Init /\ [][TrieConcNext]_vars

\* One thread inserting into a quadtree that another thread queries.
SpecQuadConc == Init /\ [][QuadConcNext]_vars

\* One caller of a trie, its calls taken one statement at a time.
SpecTrieLock == Init /\ [][TrieLockNext]_vars

\* The same under a fair scheduler: a thread that can take a step is not
\* passed over forever.
SpecTrieConcFair == SpecTrieConc /\ \A t \in Threads : WF_vars(TStep(t))


\* ------------------------------------------------------------ trie: the claims

\* What find returns for every key the grammar encodes.
FindAll(self) == [k \in ValidKeys |-> find(self, k)]

\* find(seq) returns a value.
Stored(self, seq) == find(self, seq).val # None

NotFound(res) ==
    /\ res.kind = "Err"
    /\ res.msg \in {"sequence not found!",
                    "sequence not found because container is empty!"}

AlreadyExists(res) == res.kind = "Err" /\ res.msg = "key already exists"

\* The step just taken is a call of op on a key the grammar encodes.
Called(op) == tcall'.op = op /\ tcall'.seq \in ValidKeys

\* C1: deleting a stored key k (value v) and re-inserting (k, v) returns Ok
\* twice and restores len() and find(k') for every key k'.
C1_DeleteReinsertRestores ==
    [][(Called("delete") /\ Stored(trie, tcall'.seq)) =>
        LET k == tcall'.seq
            v == find(trie, k).val[1]
            i == insert(trie', k, v)
        IN /\ tcall'.res.kind = "Ok"
           /\ i.res.kind = "Ok"
           /\ len(i.self) = len(trie)
           /\ FindAll(i.self) = FindAll(trie)]_vars

\* C2: delete of a key that is not stored returns a NotFound error and leaves
\* len() and every find unchanged.
C2_DeleteAbsentNotFound ==
    [][(Called("delete") /\ ~Stored(trie, tcall'.seq)) =>
        /\ NotFound(tcall'.res)
        /\ len(trie') = len(trie)
        /\ FindAll(trie') = FindAll(trie)]_vars

\* C3: the root identity always resolves to an arena entry.
C3_RootNeverRemoved == get_node(trie.arena, trie.root) # None

\* C4: delete of a key stored with value v returns Ok(Some(v)), decrements
\* len() by one and leaves find(k) absent.
C4_DeleteStoredOk ==
    [][(Called("delete") /\ Stored(trie, tcall'.seq)) =>
        /\ tcall'.res = Ok(find(trie, tcall'.seq).val)
        /\ len(trie') = len(trie) - 1
        /\ find(trie', tcall'.seq) = Ok(None)]_vars

\* C5: insert of a key not stored returns Ok, adds one to len() and makes
\* find(k) return v; insert of a stored key returns AlreadyExists and leaves
\* len() and the stored value unchanged.
C5_InsertFreshOrExists ==
    [][Called("insert") =>
        IF Stored(trie, tcall'.seq)
        THEN /\ AlreadyExists(tcall'.res)
             /\ len(trie') = len(trie)
             /\ find(trie', tcall'.seq) = find(trie, tcall'.seq)
        ELSE /\ tcall'.res = Ok(None)
             /\ len(trie') = len(trie) + 1
             /\ find(trie', tcall'.seq) = Ok(Some(tcall'.t))]_vars

\* C6: insert_or_update of a key stored with old returns Ok(Some(old)), keeps
\* len() and makes find(k) return v; of a key not stored it returns Ok(None),
\* stores v and adds one to len().
C6_InsertOrUpdate ==
    [][Called("insert_or_update") =>
        /\ find(trie', tcall'.seq) = Ok(Some(tcall'.t))
        /\ IF Stored(trie, tcall'.seq)
           THEN /\ tcall'.res = Ok(find(trie, tcall'.seq).val)
                /\ len(trie') = len(trie)
           ELSE /\ tcall'.res = Ok(None)
                /\ len(trie') = len(trie) + 1]_vars

\* C7: insert_or_apply of a key stored with old stores combine(old), returns
\* Ok(Some(old)) and keeps len(); of a key not stored it stores v, returns
\* Ok(None) and adds one to len().
C7_InsertOrApply ==
    [][Called("insert_or_apply") =>
        IF Stored(trie, tcall'.seq)
        THEN LET old == find(trie, tcall'.seq).val[1]
             IN /\ tcall'.res = Ok(Some(old))
                /\ find(trie', tcall'.seq) = Ok(Some(tcall'.f[old]))
                /\ len(trie') = len(trie)
        ELSE /\ tcall'.res = Ok(None)
             /\ find(trie', tcall'.seq) = Ok(Some(tcall'.t))
             /\ len(trie') = len(trie) + 1]_vars

\* C8: a call whose sequence holds a symbol outside the alphabet returns an
\* error value (never aborts) and leaves the trie unchanged.
C8_InvalidSymbolIsError ==
    [][(tcall'.op \in {"insert", "insert_or_update", "insert_or_apply", "delete"}
        /\ tcall'.seq \notin ValidKeys) =>
        /\ tcall'.res.kind = "Err"
        /\ trie' = trie]_vars

\* ------------------------------------------- trie: the claims about pruning

\* The identities reachable from those in frontier through branch slots that
\* lead to a node of the arena.
RECURSIVE ReachableFrom(_, _, _)
ReachableFrom(self, frontier, seen) ==
    LET live == {id \in frontier : id \in DOMAIN self.arena.storage} \ seen
        next == {self.arena.storage[id].children[s][1] :
                    <<id, s>> \in {<<i, k>> \in live \X (0..(GrammarLen(self.grammar) - 1)) :
                                     self.arena.storage[i].children[k] # None}}
    IN IF live = {} THEN seen
       ELSE ReachableFrom(self, next, seen \cup live)

Reachable(self) == ReachableFrom(self, {self.root}, {})

\* node has a branch slot that leads to a node of the arena.
HasChild(self, node) ==
    \E s \in DOMAIN node.children :
        /\ node.children[s] # None
        /\ node.children[s][1] \in DOMAIN self.arena.storage

\* C19: after a successful delete no empty chain is left: every node other
\* than the root that is reachable from the root is terminal or has a branch
\* slot leading to a child.
C19_NoEmptyChainAfterDelete ==
    (tcall.op = "delete" /\ tcall.res.kind = "Ok") =>
        \A id \in Reachable(trie) \ {trie.root} :
            \/ is_terminal(trie.arena.storage[id])
            \/ HasChild(trie, trie.arena.storage[id])

\* C20: delete clears the branch slot that held the removed child, so every
\* identity stored in a branch slot of a node of the arena is the identity of
\* a node of the arena.
C20_SlotsResolve ==
    \A id \in DOMAIN trie.arena.storage :
        \A s \in DOMAIN trie.arena.storage[id].children :
            trie.arena.storage[id].children[s] # None =>
                trie.arena.storage[id].children[s][1] \in DOMAIN trie.arena.storage

\* C21: delete(k), whether it returns Ok or an error, leaves find(k') as it
\* was for every key k' other than k.
C21_DeleteKeepsOtherKeys ==
    [][Called("delete") =>
        \A k \in ValidKeys \ {tcall'.seq} : find(trie', k) = find(trie, k)]_vars

\* The keys for which find returns a value.
StoredKeys(self) == {k \in ValidKeys : Stored(self, k)}

\* The terminal nodes reachable from the root.
ReachableTerminals(self) ==
    {id \in Reachable(self) : is_terminal(self.arena.storage[id])}

\* C22: between calls, len() is the number of keys for which find returns a
\* value, which is the number of terminal nodes reachable from the root.
C22_LenCountsStoredKeys ==
    tcall.res.kind # "Panic" =>
        /\ len(trie) = Cardinality(StoredKeys(trie))
        /\ Cardinality(StoredKeys(trie)) = Cardinality(ReachableTerminals(trie))

\* -------------------------------------------------------- quadtree: the claims

\* The nodes of the tree and the points they hold.
Quads(self) == {self.arena.storage[i] : i \in DOMAIN self.arena.storage}
StoredPoints(self) == {q.point[1][1] : q \in {n \in Quads(self) : n.point # None}}

\* p within the root box: min inclusive, max exclusive, on both axes.
InRootBox(p) ==
    /\ RootBBox.min[1] <= p[1] /\ p[1] < RootBBox.max[1]
    /\ RootBBox.min[2] <= p[2] /\ p[2] < RootBBox.max[2]

\* C9: insert(p, payload) returns true iff p lies within the root box and is
\* not stored yet; when it returns true, len() grows by exactly one.
C9_InsertTrueIffNewInBox ==
    [][qcall'.op = "insert" =>
        /\ qcall'.res.kind = "Ok"
        /\ qcall'.res.val <=> (InRootBox(qcall'.point)
                               /\ qcall'.point \notin StoredPoints(qt))
        /\ qcall'.res.val => quad_len(qt') = quad_len(qt) + 1]_vars

\* An insert returned true for a point that went two levels below the root.
C9_Witness ==
    /\ qcall.op = "insert"
    /\ qcall.res = Ok(TRUE)
    /\ quad_len(qt) = 3
    /\ \E q \in Quads(qt) :
          /\ q.id # qt.root_id
          /\ q.children # None
          /\ \E c \in 1..4 : qt.arena.storage[q.children[1][c]].point
                                 = Some(<<qcall.point, qcall.payload>>)

\* C10: an insert that returns false changes nothing: len(), the nodes of the
\* arena, their children and the payload of every stored point stay as they
\* were.
C10_FalseInsertNoMutation ==
    [][(qcall'.op = "insert" /\ qcall'.res = Ok(FALSE)) =>
        /\ quad_len(qt') = quad_len(qt)
        /\ DOMAIN qt'.arena.storage = DOMAIN qt.arena.storage
        /\ \A i \in DOMAIN qt.arena.storage :
              /\ qt'.arena.storage[i].children = qt.arena.storage[i].children
              /\ qt'.arena.storage[i].point = qt.arena.storage[i].point]_vars

\* An insert returned false for a point stored below the root with another
\* payload.
C10_Witness ==
    /\ qcall.op = "insert"
    /\ qcall.res = Ok(FALSE)
    /\ \E q \in Quads(qt) :
          /\ q.id # qt.root_id
          /\ q.point # None
          /\ q.point[1][1] = qcall.point
          /\ q.point[1][2] # qcall.payload

\* The query boxes callers pass to find_within: the root box cut by one grid
\* line, keeping the part on either side of it.
Queries ==
    LET Cuts == {p \in Points : (p[1] = 0 \/ p[2] = 0) /\ VecLt(p, RootBBox.max)}
        Caps == {p \in Points : (p[1] = QSize \/ p[2] = QSize) /\ VecLt(RootBBox.min, p)}
    IN {[min |-> a, max |-> RootBBox.max] : a \in Cuts}
       \cup {[min |-> RootBBox.min, max |-> b] : b \in Caps}

\* The i-th quadrant of box cut at mid: SW, SE, NE, NW.
Quadrant(box, mid, i) ==
    CASE i = 1 -> [min |-> box.min, max |-> mid]
      [] i = 2 -> [min |-> <<mid[1], box.min[2]>>, max |-> <<box.max[1], mid[2]>>]
      [] i = 3 -> [min |-> mid, max |-> box.max]
      [] i = 4 -> [min |-> <<box.min[1], mid[2]>>, max |-> <<mid[1], box.max[2]>>]

\* p within box: min inclusive, max exclusive, on both axes.
HalfOpenIn(box, p) ==
    /\ box.min[1] <= p[1] /\ p[1] < box.max[1]
    /\ box.min[2] <= p[2] /\ p[2] < box.max[2]

\* The calls so far are calls of insert.
OnlyInserts == qdirect = 0

\* C11: after any sequence of inserts, find(p) returns (p, v) for every point
\* whose insert returned true with payload v, and is absent for every point
\* never successfully inserted.
C11_FindReturnsInserted ==
    OnlyInserts =>
        \A p \in Points :
            quad_find(qt, p) =
                IF \E v \in Payloads : <<p, v>> \in qins
                THEN Ok(Some(CHOOSE e \in qins : e[1] = p))
                ELSE Ok(None)

\* Three points are stored, one of them two levels below the root.
C11_Witness ==
    /\ OnlyInserts
    /\ Cardinality(qins) = 3
    /\ \E q \in Quads(qt) : q.id # qt.root_id /\ q.children # None

\* The resident points of the subtree under quad_id in pre-order: the node's
\* own point, then its children SW, SE, NE, NW.
RECURSIVE PreOrder(_, _)
PreOrder(self, quad_id) ==
    LET quad == self.arena.storage[quad_id]
        own == IF quad.point = None THEN <<>> ELSE <<quad.point[1]>>
        c == quad.children
    IN IF c = None THEN own
       ELSE own \o PreOrder(self, c[1][1]) \o PreOrder(self, c[1][2])
                \o PreOrder(self, c[1][3]) \o PreOrder(self, c[1][4])

\* The entries of s whose point lies within box, in order.
RECURSIVE EntriesIn(_, _)
EntriesIn(s, box) ==
    IF s = <<>> THEN <<>>
    ELSE (IF HalfOpenIn(box, Head(s)[1]) THEN <<Head(s)>> ELSE <<>>)
         \o EntriesIn(Tail(s), box)

\* C12: after any sequence of inserts, find_within(query) returns exactly the
\* successfully inserted points the query contains (min inclusive, max
\* exclusive), each once, in pre-order.
C12_FindWithinExact ==
    OnlyInserts =>
    \E pre \in {PreOrder(qt, qt.root_id)} :
        \A query \in Queries :
            \E r \in {find_within(qt, query)} :
                /\ r.kind = "Ok"
                /\ r.val = EntriesIn(pre, query)
                /\ {r.val[i] : i \in 1..Len(r.val)}
                       = {e \in qins : HalfOpenIn(query, e[1])}
                /\ Cardinality({r.val[i] : i \in 1..Len(r.val)}) = Len(r.val)

\* Three points are stored over two levels and some query returns two of
\* them, leaving the third out.
C12_Witness ==
    /\ OnlyInserts
    /\ Cardinality(qins) = 3
    /\ \E q \in Quads(qt) : q.id # qt.root_id /\ q.children # None
    /\ \E query \in Queries : Len(find_within(qt, query).val) = 2

\* The bbox of the i-th child of quad (SW, SE, NE, NW).
ChildBox(self, quad, i) == self.arena.storage[quad.children[1][i]].bbox

\* C24: the four child boxes of every node that has children partition the
\* node's box at the node's resident point: the boxes meet at that point, and
\* every point within the node's box (min inclusive, max exclusive) is within
\* exactly one child's box; every stored point lies within the box of the node
\* that holds it.
C24_ChildrenPartitionBox ==
    \A q \in Quads(qt) :
        /\ q.point # None => HalfOpenIn(q.bbox, q.point[1][1])
        /\ q.children # None =>
              /\ q.point # None
              /\ \A i \in 1..4 :
                    ChildBox(qt, q, i) = Quadrant(q.bbox, q.point[1][1], i)
              /\ \A p \in Points :
                    HalfOpenIn(q.bbox, p) =>
                        Cardinality({i \in 1..4 : HalfOpenIn(ChildBox(qt, q, i), p)}) = 1

\* A node below the root has children, and a child of some node holds a point
\* that lies on a cut line through the node's resident point.
C24_Witness ==
    /\ \E q \in Quads(qt) : q.id # qt.root_id /\ q.children # None
    /\ \E q \in Quads(qt) :
          /\ q.children # None
          /\ \E i \in 1..4 :
                LET c == qt.arena.storage[q.children[1][i]]
                IN /\ c.point # None
                   /\ c.point[1][1] # q.point[1][1]
                   /\ \/ c.point[1][1][1] = q.point[1][1][1]
                      \/ c.point[1][1][2] = q.point[1][1][2]

\* ----------------------------------------------------------- arena: the claims

\* The cells the table does not own any more.
Detached == {s \in DOMAIN aheap : \A i \in DOMAIN aslot : aslot[i] # s}

\* C13: every identity get_new_id returns is strictly greater than every
\* identity it returned before, so none is issued twice, also after the node
\* an identity named was deleted.
C13_IdsStrictlyIncrease ==
    \A i, j \in 1..Len(aissued) : i < j => aissued[i] < aissued[j]

\* get_new_id has just returned again after a node named by an earlier
\* identity was added and deleted (the caller still holds its cell).
C13_Witness ==
    /\ acall.op = "get_new_id"
    /\ \E s \in Detached, k \in 1..(Len(aissued) - 1) :
          /\ aheap[s].node.id = aissued[k]
          /\ aissued[k] \notin DOMAIN aarena.storage

\* C14: add_node(node) returns Ok and installs a cell holding node under
\* node's identity iff no entry exists for that identity; otherwise it returns
\* the duplicate-identity error and the entry, its cell and the cell's
\* contents stay as they were.
C14_AddNodeIffAbsent ==
    [][acall'.op = "add_node" =>
        LET id == acall'.id
        IN /\ (acall'.res.kind = "Ok") <=> (get_node(aarena, id) = None)
           /\ acall'.res.kind = "Ok" =>
                /\ get_node(aarena', id) = acall'.node
                /\ id \in DOMAIN aslot'
                /\ aslot'[id] \notin DOMAIN aheap
                /\ aheap'[aslot'[id]].node = acall'.node[1]
           /\ acall'.res.kind # "Ok" =>
                /\ acall'.res = Err("node already exists!")
                /\ aarena' = aarena
                /\ aslot' = aslot
                /\ aheap' = aheap
    ]_vars

\* add_node was refused for an identity whose entry holds another payload.
C14_Witness ==
    /\ acall.op = "add_node"
    /\ acall.res.kind = "Err"
    /\ aarena.storage[acall.id] # acall.node[1]

\* C15: delete_node(id) returns Ok iff an entry exists for id; afterwards
\* get_node(id) is absent, while every handle obtained before still reaches
\* its cell with the contents it had; with no entry it returns the not-found
\* error and the table is unchanged.
C15_DeleteNodeKeepsHandles ==
    [][acall'.op = "delete_node" =>
        LET id == acall'.id
        IN /\ (acall'.res.kind = "Ok") <=> (get_node(aarena, id) # None)
           /\ acall'.res.kind = "Ok" =>
                /\ get_node(aarena', id) = None
                /\ id \notin DOMAIN aslot'
                /\ \A h \in 1..Len(aheld) :
                      /\ aheld[h] \in DOMAIN aheap'
                      /\ aheap'[aheld[h]].node = aheap[aheld[h]].node
           /\ acall'.res.kind # "Ok" =>
                /\ acall'.res = Err("node doesn't exist!")
                /\ aarena' = aarena
                /\ aslot' = aslot
                /\ aheap' = aheap
    ]_vars

\* delete_node has just removed an entry whose cell the caller holds a handle
\* to, and the identity does not resolve any more.
C15_Witness ==
    /\ acall.op = "delete_node"
    /\ acall.res.kind = "Ok"
    /\ get_node(aarena, acall.id) = None
    /\ \E h \in 1..Len(aheld) :
          /\ aheld[h] \in Detached
          /\ aheap[aheld[h]].node.id = acall.id

\* ------------------------------------------------- concurrency: the claims

\* C16: when two threads insert two distinct keys into the same trie and both
\* calls return Ok, find returns each key's value and len() is 2, whatever
\* the order of the threads' steps.
C16_ConcurrentInsertsKeepBothKeys ==
    (/\ \A t \in Threads : tthr[t].pc = "done" /\ tthr[t].res.kind = "Ok"
     /\ \A t, u \in Threads : t # u => tthr[t].key # tthr[u].key)
    => /\ \A t \in Threads : find(ctrie, tthr[t].key) = Ok(Some(ThreadVal(t)))
       /\ len(ctrie) = Cardinality(Threads)

\* Both inserts returned Ok for two keys that start with the same symbol,
\* whose branch did not exist before.
C16_Witness ==
    /\ \A t \in Threads : tthr[t].pc = "done" /\ tthr[t].res.kind = "Ok"
    /\ \E t, u \in Threads :
          /\ tthr[t].key # tthr[u].key
          /\ Len(tthr[t].key) = 2 /\ Len(tthr[u].key) = 2
          /\ tthr[t].key[1] = tthr[u].key[1]


\* quad has no children, or four that resolve to arena entries over the four
\* quadrants of its box cut at its point.
ChildrenComplete(self, quad) ==
    quad.children # None =>
        /\ Len(quad.children[1]) = 4
        /\ \A i \in 1..4 :
              LET c == get_node(self.arena, quad.children[1][i])
              IN /\ c # None
                 /\ c[1].bbox = Quadrant(quad.bbox, quad.point[1][1], i)

\* C17: a reader never sees a subdivision half done: a quad whose read guard
\* a reader holds, and any quad in the arena, has no children or all four,
\* each resolving to an arena entry over its quadrant.
C17_NoHalfSubdivision ==
    /\ \A lk \in qlock :
          lk.mode = "r" => ChildrenComplete(cquad, cquad.arena.storage[lk.id])
    /\ \A id \in DOMAIN cquad.arena.storage :
          ChildrenComplete(cquad, cquad.arena.storage[id])

\* The reader holds the read guard of a quad that has children.
C17_Witness ==
    \E lk \in qlock :
        /\ lk.mode = "r"
        /\ lk.t \in Readers
        /\ cquad.arena.storage[lk.id].children # None

\* C18: under a fair scheduler every operation a thread has started
\* eventually returns a value or an error.
C18_EveryOperationReturns ==
    \A t \in Threads : (tthr[t].pc # "idle") ~> (tthr[t].pc = "done")

\* C23: every trie operation releases a node's content lock before it
\* resolves or locks the next node on the path: whenever a guard is taken, the
\* guards then held are all on one node, and no frame keeps a guard while a
\* recursive call it made is running.
C23_OneNodeLockAtATime ==
    /\ Cardinality({g.id : g \in lacq}) <= 1
    /\ \A g \in lheld : g.depth = Len(lstack)

====
